---- MODULE Spec2Model ----
(***************************************************************************)
(* Page Break Indicator plugin (src/main.js): the page-height resolver,    *)
(* the break generator and its incremental extension, and the cache /      *)
(* view-synchronisation state machine of PageBreakPlugin.                  *)
(*                                                                         *)
(* Numbers.  Lengths in millimetres are kept in tenths of a millimetre,    *)
(* font metrics in hundredths, pixel values in whole pixels.               *)
(* getPageHeight rounds its result down to a whole pixel; everything else  *)
(* (scrollHeight, offsets, spacing) is integral in the inputs chosen here, *)
(* so every comparison of the generator is exact.                          *)
(***************************************************************************)
EXTENDS Integers, Sequences, FiniteSets, TLC

(***************************************************************************)
(* Bounds of the model                                                     *)
(***************************************************************************)
MaxTimers == 2        \* pending setTimeout callbacks, all kinds together
MaxPendingSaves == 1  \* saveSettings calls awaiting saveData
MaxBurst == 2         \* updateAllViews runs counted in one burst before it may grow

(***************************************************************************)
(* Constants of the program                                                *)
(***************************************************************************)
\* main.js:21-25, in tenths of a millimetre
PAGE_DIMENSIONS ==
    [A4     |-> [width |-> 2100, height |-> 2970],
     Letter |-> [width |-> 2159, height |-> 2794],
     Legal  |-> [width |-> 2159, height |-> 3556]]

\* main.js:27-32, in hundredths
FONT_METRICS ==
    ("default" :> 100) @@ ("serif" :> 102) @@ ("sans-serif" :> 98)
    @@ ("monospace" :> 105)

\* main.js:3-19 (the fields the break computation reads), margins in tenths
\* of a millimetre
DEFAULT_SETTINGS ==
    [pageSize          |-> "A4",
     orientation       |-> "portrait",
     marginTop         |-> 254,
     marginBottom      |-> 254,
     fontFamily        |-> "default",
     minBreakSpacing   |-> 50,
     calibrationOffset |-> 0]

\* main.js:145, the growth threshold of extendContainersIfNeeded
GrowthThreshold == 100

(***************************************************************************)
(* Geometry resolver                                                       *)
(***************************************************************************)
\* main.js:349-350: dims is undefined for a page size that is not in the
\* table, and reading dims.height then throws a TypeError
getPageHeightThrows(s) == s.pageSize \notin DOMAIN PAGE_DIMENSIONS

\* main.js:357: FONT_METRICS[family] || 1.0
fontMetricOf(family) ==
    IF family \in DOMAIN FONT_METRICS THEN FONT_METRICS[family] ELSE 100

\* The same with the page height taken whatever the orientation is
pageHeightScaledPortrait(s) ==
    LET dims   == PAGE_DIMENSIONS[s.pageSize]
        height == dims.height - (s.marginTop + s.marginBottom)
    IN  height * fontMetricOf(s.fontFamily) * 591

\* main.js:348-362 exactly, in units of 1/158750 pixel:
\* (tenths of mm / 10) * 96 / 25.4 * (metric / 100) * 0.985
\* = tenths * metric * 591 / 158750
pageHeightScaled(s) ==
    LET dims   == PAGE_DIMENSIONS[s.pageSize]
        height == (IF s.orientation = "portrait" THEN dims.height ELSE dims.width)
                  - (s.marginTop + s.marginBottom)
    IN  height * fontMetricOf(s.fontFamily) * 591

\* main.js:348-363, rounded down to a whole pixel
getPageHeight(s) == pageHeightScaled(s) \div 158750

(***************************************************************************)
(* Break generator                                                         *)
(***************************************************************************)
\* The loop with a bound that lets a page multiple equal to the height in
RECURSIVE SimpleLoopInclusive(_, _, _, _, _, _)
SimpleLoopInclusive(currentPage, lastBreakY, breaks, pageHeight, totalHeight, s) ==
    IF currentPage * pageHeight <= totalHeight
    THEN LET breakY == currentPage * pageHeight + s.calibrationOffset
             accept == breakY - lastBreakY >= s.minBreakSpacing
         IN  SimpleLoopInclusive(currentPage + 1,
                                 IF accept THEN breakY ELSE lastBreakY,
                                 IF accept THEN Append(breaks, breakY) ELSE breaks,
                                 pageHeight, totalHeight, s)
    ELSE breaks

\* The loop with the first candidate exempt from the spacing test
RECURSIVE SimpleLoopFirstExempt(_, _, _, _, _, _)
SimpleLoopFirstExempt(currentPage, lastBreakY, breaks, pageHeight, totalHeight, s) ==
    IF currentPage * pageHeight < totalHeight
    THEN LET breakY == currentPage * pageHeight + s.calibrationOffset
             accept == currentPage = 1
                       \/ breakY - lastBreakY >= s.minBreakSpacing
         IN  SimpleLoopFirstExempt(currentPage + 1,
                                   IF accept THEN breakY ELSE lastBreakY,
                                   IF accept THEN Append(breaks, breakY) ELSE breaks,
                                   pageHeight, totalHeight, s)
    ELSE breaks

\* The loop with a rejected candidate taken as the offset to keep clear of
RECURSIVE SimpleLoopSliding(_, _, _, _, _, _)
SimpleLoopSliding(currentPage, lastBreakY, breaks, pageHeight, totalHeight, s) ==
    IF currentPage * pageHeight < totalHeight
    THEN LET breakY == currentPage * pageHeight + s.calibrationOffset
             accept == breakY - lastBreakY >= s.minBreakSpacing
         IN  SimpleLoopSliding(currentPage + 1, breakY,
                               IF accept THEN Append(breaks, breakY) ELSE breaks,
                               pageHeight, totalHeight, s)
    ELSE breaks

\* main.js:334-343, the while loop of calculateSimpleBreaks.  For
\* pageHeight > 0 the guard fails after finitely many rounds.
RECURSIVE SimpleLoop(_, _, _, _, _, _)
SimpleLoop(currentPage, lastBreakY, breaks, pageHeight, totalHeight, s) ==
    IF currentPage * pageHeight < totalHeight
    THEN LET breakY == currentPage * pageHeight + s.calibrationOffset
             accept == breakY - lastBreakY >= s.minBreakSpacing
         IN  SimpleLoop(currentPage + 1,
                        IF accept THEN breakY ELSE lastBreakY,
                        IF accept THEN Append(breaks, breakY) ELSE breaks,
                        pageHeight, totalHeight, s)
    ELSE breaks

\* main.js:334: with pageHeight <= 0 the products currentPage * pageHeight
\* never grow, so a guard that holds for currentPage = 1 holds for ever and
\* the loop does not end
simpleBreaksDiverges(totalHeight, pageHeight) ==
    pageHeight <= 0 /\ pageHeight < totalHeight

\* main.js:323-346 for the page height p (not diverging)
simpleBreaksOf(totalHeight, p, s) ==
    SimpleLoop(1, 0, << >>, p, totalHeight, s)

\* main.js:323-346
calculateSimpleBreaks(totalHeight, s) ==
    simpleBreaksOf(totalHeight, getPageHeight(s), s)

\* main.js:176-183, the while loop of createAdditionalBreaks
RECURSIVE AdditionalLoop(_, _, _, _, _, _, _)
AdditionalLoop(currentPage, lastBreakY, breaks, oldHeight, newHeight, pageHeight, s) ==
    IF currentPage * pageHeight < newHeight
    THEN LET breakY == currentPage * pageHeight + s.calibrationOffset
             accept == breakY - lastBreakY >= s.minBreakSpacing
                       /\ breakY > oldHeight
         IN  AdditionalLoop(currentPage + 1,
                            IF accept THEN breakY ELSE lastBreakY,
                            IF accept THEN Append(breaks, breakY) ELSE breaks,
                            oldHeight, newHeight, pageHeight, s)
    ELSE breaks

\* main.js:173: Math.floor(lastBreak / pageHeight) + 1, pageHeight # 0
firstExtensionPage(lastBreak, pageHeight) ==
    IF pageHeight > 0
    THEN (lastBreak \div pageHeight) + 1
    ELSE -((lastBreak \div (-pageHeight))
           + (IF lastBreak % (-pageHeight) = 0 THEN 0 ELSE 1)) + 1

\* main.js:173-176: with pageHeight = 0 the quotient is Infinity or NaN, the
\* product currentPage * pageHeight is NaN and the guard is false at once;
\* with pageHeight < 0 a guard that holds at entry holds for ever
additionalBreaksDiverges(lastBreak, newHeight, pageHeight) ==
    pageHeight < 0
    /\ firstExtensionPage(lastBreak, pageHeight) * pageHeight < newHeight

\* main.js:171-186 (not diverging)
createAdditionalBreaks(lastBreak, oldHeight, newHeight, pageHeight, s) ==
    IF pageHeight <= 0
    THEN << >>
    ELSE AdditionalLoop(firstExtensionPage(lastBreak, pageHeight), lastBreak,
                        << >>, oldHeight, newHeight, pageHeight, s)

\* main.js:152-153
lastBreakPosition(existingBreaks) ==
    IF Len(existingBreaks) > 0 THEN existingBreaks[Len(existingBreaks)] ELSE 0

(***************************************************************************)
(* State                                                                   *)
(***************************************************************************)
\* Content regions, named in the order in which their views open
ContainerOrder == << "c1", "c2" >>
Containers == {ContainerOrder[i] : i \in 1..Len(ContainerOrder)}

\* The setTimeout callbacks, each () => this.updateAllViews(), by origin:
\* "view" after active-leaf-change or file-open (main.js:75, 88), "layout"
\* after layout-change (main.js:97), "once" the initial update and the one
\* recalibrate schedules (main.js:102-105, 135)
TimerKinds == {"view", "layout", "once"}

VARIABLES
    settings,         \* this.settings (main.js:118)
    pendingSaves,     \* saveSettings calls suspended at await saveData (main.js:122)
    loaded,           \* the plugin's registered events are live (until onunload)
    hung,             \* the event thread is inside a loop that never ends
    leaves,           \* workspace.getLeavesOfType('markdown'), in order (main.js:200)
    noTarget,         \* views with no .cm-scroller and no preview element (main.js:237)
    closed,           \* views that were closed
    scrollHeight,     \* targetEl.scrollHeight of each view's content region
    breakContainers,  \* this.breakContainers, a Map in insertion order (main.js:39)
    calculatedBreaks, \* this.calculatedBreaks (main.js:40)
    observers,        \* the keys of this.observers (main.js:41)
    connected,        \* connected ResizeObserver instances per content region
    timers,           \* pending setTimeout callbacks per origin
    debouncePending,  \* the timer of debouncedUpdate is armed (main.js:44)
    valid,            \* history: fully computed, no invalidating event since
    cacheCfg,         \* history: the settings each cache entry was built under
    burstRuns,        \* history: updateAllViews runs the current layout-change burst caused
    trace,            \* history: what the last handler did
    gen               \* inputs and results of the generator runs (SpecGen)

vars == << settings, pendingSaves, loaded, hung, leaves, noTarget, closed,
           scrollHeight, breakContainers, calculatedBreaks, observers,
           connected, timers, debouncePending, valid, cacheCfg, burstRuns,
           trace, gen >>

envVars == << leaves, noTarget, closed, scrollHeight >>
pluginVars == << hung, breakContainers, calculatedBreaks, observers, connected,
                 valid, cacheCfg, trace >>
hostUntouched == << hung, breakContainers, calculatedBreaks, observers,
                    connected, valid, cacheCfg >>
timerVars == << timers, debouncePending, burstRuns >>

\* An empty Map
EmptyMap == [c \in {} |-> << >>]

\* Map.set and Map.delete on a map kept as a function
MapSet(m, k, v) == [c \in DOMAIN m \cup {k} |-> IF c = k THEN v ELSE m[c]]

\* What a handler has done so far, reset when a handler starts
NoTrace ==
    [cleared    |-> {},   \* cache entries present before the clearing step
     afterClear |-> {},   \* cache entries present right after the clearing step
     calc       |-> {},   \* content regions calculateSimpleBreaks ran for
     redundant  |-> {},   \* ... while their earlier computation was still valid
     rendered   |-> {},   \* content regions markers were rendered for
     exposed    |-> {},   \* ... with offsets the cache did not hold at the call
     threw      |-> {},   \* content regions whose processing threw
     skipped    |-> {}]   \* content regions a propagating throw kept from processing

\* The plugin's mutable state as one record, threaded through a handler
PluginState ==
    [breakContainers  |-> breakContainers,
     calculatedBreaks |-> calculatedBreaks,
     observers        |-> observers,
     connected        |-> connected,
     hung             |-> hung,
     valid            |-> valid,
     cacheCfg         |-> cacheCfg,
     trace            |-> NoTrace]

\* The handler's final state becomes the next state
Commit(st) ==
    /\ breakContainers' = st.breakContainers
    /\ calculatedBreaks' = st.calculatedBreaks
    /\ observers' = st.observers
    /\ connected' = st.connected
    /\ hung' = st.hung
    /\ valid' = st.valid
    /\ cacheCfg' = st.cacheCfg
    /\ trace' = st.trace

\* this.breakContainers.get / has / delete on the insertion-ordered Map
overlayIndex(bc, c) ==
    IF \E i \in 1..Len(bc) : bc[i].target = c
    THEN CHOOSE i \in 1..Len(bc) : bc[i].target = c
    ELSE 0

overlayTargets(bc) == {bc[i].target : i \in 1..Len(bc)}

overlayDelete(bc, c) == SelectSeq(bc, LAMBDA e : e.target # c)

\* main.js:281-306: an empty overlay as high as the content region
createBreakContainer(c) ==
    [target |-> c, height |-> scrollHeight[c], markers |-> << >>]

(***************************************************************************)
(* Rendering (the markers of an overlay)                                   *)
(***************************************************************************)
\* main.js:377-434: one marker; only its offset and page number matter here
createBreakIndicator(position, pageNumber) ==
    [position |-> position, page |-> pageNumber]

\* The cache entry of c ends with the offsets about to be rendered
cacheHolds(st, c, breaks) ==
    /\ c \in DOMAIN st.calculatedBreaks
    /\ LET cached == st.calculatedBreaks[c]
       IN  /\ Len(cached) >= Len(breaks)
           /\ SubSeq(cached, Len(cached) - Len(breaks) + 1, Len(cached)) = breaks

\* main.js:188-197: append one marker per offset, numbered from
\* startingPageNumber, to the overlay of c
renderAdditionalBreaks(st, c, breaks, startingPageNumber) ==
    LET i == overlayIndex(st.breakContainers, c)
        fragment == [k \in 1..Len(breaks) |->
                        createBreakIndicator(breaks[k], startingPageNumber + (k - 1))]
    IN  [st EXCEPT !.breakContainers[i].markers = @ \o fragment,
                   !.trace.rendered = @ \cup {c},
                   !.trace.exposed =
                       IF cacheHolds(st, c, breaks) THEN @ ELSE @ \cup {c}]

\* main.js:365-375: the same, numbered from 2
renderPageBreaks(st, c, breaks) ==
    renderAdditionalBreaks(st, c, breaks, 2)

(***************************************************************************)
(* The handlers' steps                                                     *)
(***************************************************************************)
\* A new observer connected beside the one already registered for c
setupHeightObserverKeepingOld(st, c) ==
    [st EXCEPT !.connected[c] = @ + 1,
               !.observers = @ \cup {c}]

\* main.js:308-320: disconnect the observer registered for c, connect a new one
setupHeightObserver(st, c) ==
    LET afterOld == IF c \in st.observers
                    THEN [st.connected EXCEPT ![c] = @ - 1]
                    ELSE st.connected
    IN  [st EXCEPT !.connected = [afterOld EXCEPT ![c] = @ + 1],
                   !.observers = @ \cup {c}]

\* main.js:250-259: drop the old overlay of c, create a new one
replaceOverlay(st, c) ==
    [st EXCEPT !.breakContainers =
                   Append(overlayDelete(@, c), createBreakContainer(c))]

\* main.js:262-274: store, render, observe
storeAndRender(st, c, breaks) ==
    LET stored ==
            [st EXCEPT !.calculatedBreaks = MapSet(@, c, breaks),
                       !.cacheCfg = MapSet(@, c, {settings}),
                       !.trace.calc = @ \cup {c},
                       !.trace.redundant =
                           IF c \in st.valid THEN @ \cup {c} ELSE @,
                       !.valid = @ \cup {c}]
        shown == IF Len(breaks) > 0
                 THEN renderPageBreaks(stored, c, breaks)
                 ELSE stored
    IN  setupHeightObserver(shown, c)

\* The update going on without a content region: an element of height 0
updatePageBreaksAnyTarget(st, c) ==
    IF st.hung \/ c \in DOMAIN st.calculatedBreaks
    THEN st
    ELSE LET fresh == replaceOverlay(st, c)
         IN  IF getPageHeightThrows(settings)
             THEN [fresh EXCEPT !.trace.threw = @ \cup {c}]
             ELSE IF simpleBreaksDiverges(scrollHeight[c], getPageHeight(settings))
             THEN [fresh EXCEPT !.hung = TRUE]
             ELSE storeAndRender(fresh, c,
                                 calculateSimpleBreaks(scrollHeight[c], settings))

\* main.js:219-279.  An exception is caught at main.js:276; a loop that
\* never ends leaves the thread inside calculateSimpleBreaks.
updatePageBreaks(st, c) ==
    IF st.hung \/ c \in noTarget \/ c \in DOMAIN st.calculatedBreaks
    THEN st
    ELSE LET fresh == replaceOverlay(st, c)
         IN  IF getPageHeightThrows(settings)
             THEN [fresh EXCEPT !.trace.threw = @ \cup {c}]
             ELSE IF simpleBreaksDiverges(scrollHeight[c], getPageHeight(settings))
             THEN [fresh EXCEPT !.hung = TRUE]
             ELSE storeAndRender(fresh, c,
                                 calculateSimpleBreaks(scrollHeight[c], settings))

\* this.calculatedBreaks.clear() (main.js:68, 96, 114, 123, 133, 204)
\* A clearing that forgets only the entries of the open views: entries of
\* regions whose view is gone survive it.
clearCacheOfLeaves(st) ==
    LET kept == DOMAIN st.calculatedBreaks \ {leaves[i] : i \in 1..Len(leaves)}
    IN  [st EXCEPT !.calculatedBreaks = [c \in kept |-> st.calculatedBreaks[c]],
                   !.cacheCfg = [c \in kept |-> st.cacheCfg[c]]]

clearCache(st) ==
    [st EXCEPT !.calculatedBreaks = EmptyMap, !.cacheCfg = EmptyMap]

\* The update visiting every view the workspace ever had, open or not
RECURSIVE updateEveryViewFrom(_, _)
updateEveryViewFrom(st, i) ==
    IF i > Len(ContainerOrder)
    THEN st
    ELSE updateEveryViewFrom(updatePageBreaks(st, ContainerOrder[i]), i + 1)

\* main.js:206-211
RECURSIVE updateLeavesFrom(_, _)
updateLeavesFrom(st, i) ==
    IF i > Len(leaves)
    THEN st
    ELSE updateLeavesFrom(updatePageBreaks(st, leaves[i]), i + 1)

\* main.js:199-212
updateAllViews(st) == updateLeavesFrom(clearCache(st), 1)

\* main.js:214-217
removeAllPageBreaks(st) == [st EXCEPT !.breakContainers = << >>]

\* A structural handler that leaves the cache as it is
keepCacheStep(st) == st

\* The clearing step of a structural handler, with what it found and left
clearStep(st) ==
    LET after == clearCache(st)
    IN  [after EXCEPT !.valid = {},
                      !.trace.cleared = st.trace.cleared \cup DOMAIN st.calculatedBreaks,
                      !.trace.afterClear = DOMAIN after.calculatedBreaks]

\* Any growth at all counts
grownAtAll(newHeight, currentHeight) == newHeight > currentHeight

\* main.js:145
grown(newHeight, currentHeight) == newHeight > currentHeight + GrowthThreshold

\* main.js:141-167, the callback of forEach for the i-th overlay
extendContainer(st, i) ==
    LET container == st.breakContainers[i]
        targetEl == container.target
        currentHeight == container.height     \* parseInt("<n>px") || 0
        newHeight == scrollHeight[targetEl]
        resized == [st EXCEPT !.breakContainers[i].height = newHeight]
    IN  IF ~grown(newHeight, currentHeight)
        THEN st
        ELSE IF getPageHeightThrows(settings)
        THEN [resized EXCEPT !.trace.threw = @ \cup {targetEl}]
        ELSE LET pageHeight == getPageHeight(settings)
                 existingBreaks ==
                     IF targetEl \in DOMAIN st.calculatedBreaks
                     THEN st.calculatedBreaks[targetEl]
                     ELSE << >>
                 last == lastBreakPosition(existingBreaks)
             IN  IF additionalBreaksDiverges(last, newHeight, pageHeight)
                 THEN [resized EXCEPT !.hung = TRUE]
                 ELSE LET newBreaks ==
                              createAdditionalBreaks(last, currentHeight,
                                                     newHeight, pageHeight, settings)
                          shown == renderAdditionalBreaks(resized, targetEl, newBreaks,
                                                          Len(existingBreaks) + 2)
                      IN  IF Len(newBreaks) > 0
                          THEN [shown EXCEPT
                                  !.calculatedBreaks =
                                      MapSet(@, targetEl, existingBreaks \o newBreaks),
                                  !.cacheCfg =
                                      MapSet(@, targetEl,
                                             (IF targetEl \in DOMAIN st.cacheCfg
                                              THEN st.cacheCfg[targetEl] ELSE {})
                                             \cup {settings})]
                          ELSE resized

\* main.js:139-169.  forEach has no try: an exception thrown by the callback
\* leaves the loop, and the overlays after it are not visited.
RECURSIVE extendFrom(_, _)
extendFrom(st, i) ==
    IF i > Len(st.breakContainers)
    THEN st
    ELSE IF st.hung
    THEN st
    ELSE IF st.trace.threw # {}
    THEN extendFrom([st EXCEPT !.trace.skipped =
                                   @ \cup {st.breakContainers[i].target}], i + 1)
    ELSE extendFrom(extendContainer(st, i), i + 1)

\* A growth signal answered by computing every view afresh
recomputeOnGrowth(st) == updateAllViews(st)

extendContainersIfNeeded(st) == extendFrom(st, 1)

(***************************************************************************)
(* Inputs                                                                  *)
(***************************************************************************)
\* Rendered heights of a content region, in pixels
Heights == {1000, 3000}

\* What loadData may hold (main.js:118): nothing, a page size this version
\* does not know, or a positive calibration offset with no minimum spacing
LoadedSettings ==
    {DEFAULT_SETTINGS,
     [DEFAULT_SETTINGS EXCEPT !.pageSize = "A3"],
     [DEFAULT_SETTINGS EXCEPT !.calibrationOffset = 300, !.minBreakSpacing = 0]}

\* What the user enters in the settings tab: field, value
SettingEdits ==
    {<<"calibrationOffset", -616>>,
     <<"marginBottom", 3000>>}

\* main.js:458-461, 485-491, 499-505, 593-599, 609-615: the onChange tests
settingAccepted(field, value) ==
    CASE field \in {"marginTop", "marginBottom", "minBreakSpacing"} -> value >= 0
      [] OTHER -> TRUE

pendingTimers == timers["view"] + timers["layout"] + timers["once"]

NoGen == [phase |-> "none"]

(***************************************************************************)
(* Initial state: onload has run (main.js:35-106)                          *)
(***************************************************************************)
InitPlugin ==
    /\ pendingSaves = 0
    /\ loaded = TRUE
    /\ hung = FALSE
    /\ leaves = << >>
    /\ noTarget = {}
    /\ closed = {}
    /\ scrollHeight = [c \in Containers |-> 0]
    /\ breakContainers = << >>
    /\ calculatedBreaks = EmptyMap
    /\ observers = {}
    /\ connected = [c \in Containers |-> 0]
    /\ timers = [k \in TimerKinds |-> IF k = "once" THEN 1 ELSE 0]
    /\ debouncePending = FALSE
    /\ valid = {}
    /\ cacheCfg = EmptyMap
    /\ burstRuns = 0
    /\ trace = NoTrace

Init ==
    /\ settings \in LoadedSettings
    /\ InitPlugin
    /\ gen = NoGen

(***************************************************************************)
(* The host: views and their content                                       *)
(***************************************************************************)
\* A markdown view opens; its content region may not be there yet
OpenView(c, h, ready) ==
    /\ ~hung
    /\ Len(leaves) + Cardinality(closed) < Len(ContainerOrder)
    /\ c = ContainerOrder[Len(leaves) + Cardinality(closed) + 1]
    /\ leaves' = Append(leaves, c)
    /\ noTarget' = IF ready THEN noTarget ELSE noTarget \cup {c}
    /\ scrollHeight' = [scrollHeight EXCEPT ![c] = IF ready THEN h ELSE 0]
    /\ UNCHANGED << settings, pendingSaves, loaded, closed, gen >>
    /\ trace' = NoTrace
    /\ UNCHANGED hostUntouched
    /\ UNCHANGED timerVars

\* The content region of an open view appears
TargetReady(c, h) ==
    /\ ~hung
    /\ c \in noTarget
    /\ noTarget' = noTarget \ {c}
    /\ scrollHeight' = [scrollHeight EXCEPT ![c] = h]
    /\ UNCHANGED << settings, pendingSaves, loaded, leaves, closed, gen >>
    /\ trace' = NoTrace
    /\ UNCHANGED hostUntouched
    /\ UNCHANGED timerVars

\* The view is closed: it leaves the workspace, its elements are detached
\* (a detached element has scrollHeight 0)
CloseView(c) ==
    /\ ~hung
    /\ \E i \in 1..Len(leaves) : leaves[i] = c
    /\ leaves' = SelectSeq(leaves, LAMBDA x : x # c)
    /\ noTarget' = noTarget \ {c}
    /\ closed' = closed \cup {c}
    /\ scrollHeight' = [scrollHeight EXCEPT ![c] = 0]
    /\ UNCHANGED << settings, pendingSaves, loaded, gen >>
    /\ trace' = NoTrace
    /\ valid' = valid \ {c}
    /\ UNCHANGED << hung, breakContainers, calculatedBreaks, observers,
                    connected, cacheCfg >>
    /\ UNCHANGED timerVars

\* The document grows or shrinks
SetHeight(c, h) ==
    /\ ~hung
    /\ \E i \in 1..Len(leaves) : leaves[i] = c
    /\ c \notin noTarget
    /\ h # scrollHeight[c]
    /\ scrollHeight' = [scrollHeight EXCEPT ![c] = h]
    /\ UNCHANGED << settings, pendingSaves, loaded, leaves, noTarget, closed, gen >>
    /\ trace' = NoTrace
    /\ UNCHANGED hostUntouched
    /\ UNCHANGED timerVars

(***************************************************************************)
(* The plugin's handlers                                                   *)
(***************************************************************************)
\* main.js:65-71 and 93-98: both layout-change callbacks, in registration
\* order.  debounce(cb, 500, true) re-arms its one timer on every call.
LayoutChange ==
    /\ loaded /\ ~hung
    /\ pendingTimers < MaxTimers
    /\ debouncePending => burstRuns < MaxBurst
    /\ Commit(clearStep(clearStep(PluginState)))
    /\ debouncePending' = TRUE
    /\ timers' = [timers EXCEPT !["layout"] = @ + 1]
    /\ burstRuns' = IF debouncePending THEN burstRuns ELSE 0
    /\ UNCHANGED << settings, pendingSaves, loaded, gen >>
    /\ UNCHANGED envVars

\* main.js:73-77
ActiveLeafChange ==
    /\ loaded /\ ~hung
    /\ pendingTimers < MaxTimers
    /\ timers' = [timers EXCEPT !["view"] = @ + 1]
    /\ trace' = NoTrace
    /\ UNCHANGED << settings, pendingSaves, loaded, gen, hung, breakContainers,
                    calculatedBreaks, observers, connected, valid, cacheCfg,
                    debouncePending, burstRuns >>
    /\ UNCHANGED envVars

\* main.js:86-90
FileOpen ==
    /\ loaded /\ ~hung
    /\ pendingTimers < MaxTimers
    /\ timers' = [timers EXCEPT !["view"] = @ + 1]
    /\ trace' = NoTrace
    /\ UNCHANGED << settings, pendingSaves, loaded, gen, hung, breakContainers,
                    calculatedBreaks, observers, connected, valid, cacheCfg,
                    debouncePending, burstRuns >>
    /\ UNCHANGED envVars

\* main.js:79-84
EditorChange ==
    /\ loaded /\ ~hung
    /\ Commit(extendContainersIfNeeded(PluginState))
    /\ UNCHANGED << settings, pendingSaves, loaded, gen >>
    /\ UNCHANGED envVars
    /\ UNCHANGED timerVars

\* main.js:314-316: the callback of a connected ResizeObserver
ResizeObserved(c) ==
    /\ ~hung
    /\ connected[c] > 0
    /\ Commit(extendContainersIfNeeded(PluginState))
    /\ UNCHANGED << settings, pendingSaves, loaded, gen >>
    /\ UNCHANGED envVars
    /\ UNCHANGED timerVars

\* main.js:131-136
recalibrate ==
    /\ loaded /\ ~hung
    /\ pendingTimers < MaxTimers
    /\ Commit(removeAllPageBreaks(clearStep(PluginState)))
    /\ timers' = [timers EXCEPT !["once"] = @ + 1]
    /\ UNCHANGED << settings, pendingSaves, loaded, gen, debouncePending,
                    burstRuns >>
    /\ UNCHANGED envVars

\* A setTimeout callback runs: this.updateAllViews() (main.js:75, 88, 97,
\* 102-105, 135)
TimerFires(kind) ==
    /\ ~hung
    /\ timers[kind] > 0
    /\ timers' = [timers EXCEPT ![kind] = @ - 1]
    /\ Commit(updateAllViews(PluginState))
    /\ burstRuns' = IF kind = "layout" THEN burstRuns + 1 ELSE burstRuns
    /\ UNCHANGED << settings, pendingSaves, loaded, gen, debouncePending >>
    /\ UNCHANGED envVars

\* main.js:44: the debounced updateAllViews runs, 500 ms after the last call.
\* Every layout-change arms a 200 ms timer when it re-arms this one, so those
\* have all run by then.
DebounceFires ==
    /\ ~hung
    /\ debouncePending
    /\ timers["layout"] = 0
    /\ debouncePending' = FALSE
    /\ Commit(updateAllViews(PluginState))
    /\ burstRuns' = burstRuns + 1
    /\ UNCHANGED << settings, pendingSaves, loaded, gen, timers >>
    /\ UNCHANGED envVars

\* An onChange of the settings tab up to its await (main.js:458-460,
\* 485-489, 593-597, 121-122): the setting is written, the save is in flight
EditSetting(field, value) ==
    /\ loaded /\ ~hung
    /\ pendingSaves < MaxPendingSaves
    /\ settingAccepted(field, value)
    /\ settings[field] # value
    /\ settings' = [settings EXCEPT ![field] = value]
    /\ pendingSaves' = pendingSaves + 1
    /\ trace' = NoTrace
    /\ UNCHANGED << loaded, gen, hung, breakContainers, calculatedBreaks,
                    observers, connected, valid, cacheCfg >>
    /\ UNCHANGED envVars
    /\ UNCHANGED timerVars

\* main.js:123-124: saveData has resolved
saveSettings ==
    /\ ~hung
    /\ pendingSaves > 0
    /\ pendingSaves' = pendingSaves - 1
    /\ Commit(updateAllViews(clearStep(PluginState)))
    /\ UNCHANGED << settings, loaded, gen >>
    /\ UNCHANGED envVars
    /\ UNCHANGED timerVars

\* main.js:108-115
onunload ==
    /\ loaded /\ ~hung
    /\ loaded' = FALSE
    /\ LET st == PluginState
           disconnected ==
               [st EXCEPT !.connected =
                              [c \in Containers |->
                                  IF c \in st.observers THEN @[c] - 1 ELSE @[c]],
                          !.observers = {}]
       IN  Commit(clearCache(removeAllPageBreaks(disconnected)))
    /\ UNCHANGED << settings, pendingSaves, gen >>
    /\ UNCHANGED envVars
    /\ UNCHANGED timerVars

Next ==
    \/ \E c \in Containers, h \in Heights, ready \in BOOLEAN : OpenView(c, h, ready)
    \/ \E c \in Containers, h \in Heights : TargetReady(c, h)
    \/ \E c \in Containers : CloseView(c)
    \/ \E c \in Containers, h \in Heights : SetHeight(c, h)
    \/ LayoutChange
    \/ ActiveLeafChange
    \/ FileOpen
    \/ EditorChange
    \/ \E c \in Containers : ResizeObserved(c)
    \/ recalibrate
    \/ \E kind \in TimerKinds : TimerFires(kind)
    \/ DebounceFires
    \/ \E e \in SettingEdits : EditSetting(e[1], e[2])
    \/ saveSettings
    \/ onunload

Spec == Init /\ [][Next]_vars

(***************************************************************************)
(* The generator on its own: calculateSimpleBreaks on an old height, then  *)
(* createAdditionalBreaks up to a new height, beside calculateSimpleBreaks *)
(* on the new height                                                       *)
(***************************************************************************)
\* Bottom margins giving the page heights 916 px (the default) and 900 px
GenMargins == {254, 298}
GenOffsets == {-1000, -100, 0, 300, 900, 1000}
GenSpacings == {0, 50, 1000}
GenHeights == {0, 500, 900, 1000, 1800, 2000, 2700, 2800, 3000, 3700}

GenSettings ==
    {[DEFAULT_SETTINGS EXCEPT !.marginBottom = mb,
                              !.calibrationOffset = off,
                              !.minBreakSpacing = sp] :
        mb \in GenMargins, off \in GenOffsets, sp \in GenSpacings}

InitGen ==
    /\ settings = DEFAULT_SETTINGS
    /\ InitPlugin
    /\ gen \in [phase : {"input"}, s : GenSettings,
                 oldHeight : GenHeights, newHeight : GenHeights,
                 existing : {<< >>}, additional : {<< >>}, full : {<< >>}]

\* calculateSimpleBreaks on the old height (main.js:262)
GenerateFull ==
    /\ gen.phase = "input"
    /\ gen' = [gen EXCEPT !.phase = "generated",
                          !.existing = calculateSimpleBreaks(gen.oldHeight, gen.s)]
    /\ UNCHANGED << settings, pendingSaves, loaded >>
    /\ UNCHANGED envVars
    /\ UNCHANGED pluginVars
    /\ UNCHANGED timerVars

\* The document has grown: createAdditionalBreaks as extendContainersIfNeeded
\* calls it (main.js:150-160), and calculateSimpleBreaks on the new height
ExtendGenerated ==
    /\ gen.phase = "generated"
    /\ gen.oldHeight < gen.newHeight
    /\ gen' = [gen EXCEPT
                  !.phase = "extended",
                  !.additional =
                      createAdditionalBreaks(lastBreakPosition(gen.existing),
                                             gen.oldHeight, gen.newHeight,
                                             getPageHeight(gen.s), gen.s),
                  !.full = calculateSimpleBreaks(gen.newHeight, gen.s)]
    /\ UNCHANGED << settings, pendingSaves, loaded >>
    /\ UNCHANGED envVars
    /\ UNCHANGED pluginVars
    /\ UNCHANGED timerVars

NextGen == GenerateFull \/ ExtendGenerated

SpecGen == InitGen /\ [][NextGen]_vars

(***************************************************************************)
(* The geometry resolver on its own: getPageHeight on a configuration      *)
(***************************************************************************)
GeomSizes == {"A4", "Letter", "Legal"}
GeomOrientations == {"portrait", "landscape"}
\* Margins in tenths of a millimetre; two of 110 mm exceed every page width
GeomMargins == {0, 254, 1100}
\* "cursive" is not a key of FONT_METRICS
GeomFamilies == {"default", "monospace", "cursive"}

GeomSettings ==
    {[DEFAULT_SETTINGS EXCEPT !.pageSize = ps, !.orientation = o,
                              !.marginTop = mt, !.marginBottom = mb,
                              !.fontFamily = ff] :
        ps \in GeomSizes, o \in GeomOrientations,
        mt \in GeomMargins, mb \in GeomMargins, ff \in GeomFamilies}

InitGeom ==
    /\ settings \in GeomSettings
    /\ InitPlugin
    /\ gen = NoGen

\* const pageHeight = this.getPageHeight() (main.js:150, 325)
ResolveGeometry ==
    /\ gen.phase = "none"
    /\ gen' = [phase |-> "resolved",
               scaled |-> pageHeightScaled(settings),
               pageHeight |-> getPageHeight(settings)]
    /\ UNCHANGED << settings, pendingSaves, loaded >>
    /\ UNCHANGED envVars
    /\ UNCHANGED pluginVars
    /\ UNCHANGED timerVars

NextGeom == ResolveGeometry

SpecGeom == InitGeom /\ [][NextGeom]_vars

(***************************************************************************)
(* Growth: the views, their documents growing by less and by more than the *)
(* threshold, and the handlers that compute, clear and extend              *)
(***************************************************************************)
\* Rendered heights: 1100 is exactly the threshold above 1000
GrowthHeights == {1000, 1100, 3000}

\* main.js:79-84, 314-316: the two callers of extendContainersIfNeeded
GrowthSignal == EditorChange \/ \E c \in Containers : ResizeObserved(c)

\* A deferred recomputation runs: a setTimeout callback or the debounced call
DeferredRun == (\E kind \in TimerKinds : TimerFires(kind)) \/ DebounceFires

NextGrowth ==
    \/ \E c \in Containers, h \in GrowthHeights : OpenView(c, h, TRUE)
    \/ \E c \in Containers : CloseView(c)
    \/ \E c \in Containers, h \in GrowthHeights : SetHeight(c, h)
    \/ LayoutChange
    \/ EditorChange
    \/ \E c \in Containers : ResizeObserved(c)
    \/ \E kind \in TimerKinds : TimerFires(kind)
    \/ DebounceFires

SpecGrowth == Init /\ [][NextGrowth]_vars

(***************************************************************************)
(* Recomputation after a structural signal: one view, every structural     *)
(* signal, and the timers, the debounced call and the save all completing  *)
(***************************************************************************)
NextLive ==
    \/ \E h \in Heights, ready \in BOOLEAN : OpenView("c1", h, ready)
    \/ \E h \in Heights : TargetReady("c1", h)
    \/ CloseView("c1")
    \/ \E h \in Heights : SetHeight("c1", h)
    \/ LayoutChange
    \/ ActiveLeafChange
    \/ FileOpen
    \/ EditorChange
    \/ recalibrate
    \/ \E kind \in TimerKinds : TimerFires(kind)
    \/ DebounceFires
    \/ \E e \in SettingEdits : EditSetting(e[1], e[2])
    \/ saveSettings

\* While a setTimeout callback, the debounced call or the continuation of
\* a save is due, the event loop eventually runs one of them
FairLive == WF_vars(DeferredRun \/ saveSettings)

\* onload with no stored data: the settings are the defaults (main.js:118)
InitLive ==
    /\ settings = DEFAULT_SETTINGS
    /\ InitPlugin
    /\ gen = NoGen

SpecLive == InitLive /\ [][NextLive]_vars /\ FairLive

(***************************************************************************)
(* Helpers of the properties                                               *)
(***************************************************************************)
isLeaf(c) == \E i \in 1..Len(leaves) : leaves[i] = c

overlayOf(c) == breakContainers[overlayIndex(breakContainers, c)]

hasOverlay(c) == c \in overlayTargets(breakContainers)

pageHeightPositive(s) == ~getPageHeightThrows(s) /\ getPageHeight(s) > 0

(***************************************************************************)
(* Properties                                                              *)
(***************************************************************************)
\* C1: for oldHeight < newHeight (page height > 0), calculateSimpleBreaks on
\* newHeight returns the sequence it returns on oldHeight followed by what
\* createAdditionalBreaks adds from that sequence's last offset.
C1_ExtensionEquivalence ==
    gen.phase = "extended" => gen.full = gen.existing \o gen.additional

\* C2: with a page height that is not positive, an update cycle and a
\* growth extension still end: the thread never stays inside the break loop.
C2_NonPositiveHeightCycleEnds ==
    (~getPageHeightThrows(settings) /\ getPageHeight(settings) <= 0) => ~hung

\* C3: an update request for a content region whose breaks were computed,
\* with no layout change, recalibration or save since, does not run
\* calculateSimpleBreaks again.
C3_SecondRequestUsesCache == trace.redundant = {}

C5_OffsetsWithinHeight ==
    \A c \in DOMAIN calculatedBreaks :
        hasOverlay(c) =>
            \A i \in 1..Len(calculatedBreaks[c]) :
                calculatedBreaks[c][i] <= overlayOf(c).height

\* C6: right after the clearing step of a layout-change, recalibrate or
\* save handler no content region has a cache entry, so every entry the
\* handler leaves behind was computed by it after the clearing.
C6_ClearingEmptiesCache ==
    /\ trace.afterClear = {}
    /\ trace.cleared # {} => DOMAIN calculatedBreaks \subseteq trace.calc

\* C6 witness: a structural handler has cleared a cache that held entries
\* of both content regions.
C6_Witness == trace.cleared = Containers /\ trace.afterClear = {}

\* C7: a content region whose view is not among the leaves has no cache
\* entry, no overlay entry and no connected observer.
C7_ClosedViewForgotten ==
    \A c \in Containers :
        ~isLeaf(c) =>
            /\ c \notin DOMAIN calculatedBreaks
            /\ ~hasOverlay(c)
            /\ c \notin observers
            /\ connected[c] = 0

\* C8: once a burst of layout-change events has settled (no timer of it is
\* pending), it has caused exactly one run of updateAllViews.
C8_BurstCausesOneRun ==
    (~debouncePending /\ timers["layout"] = 0) => burstRuns <= 1

\* C9: markers are rendered only for offsets the cache entry of the content
\* region already holds when the rendering is called.
C9_CacheBeforeRender == trace.exposed = {}

\* C10: when the processing of one content region throws, no other content
\* region of the cycle that had work to do is left unprocessed.
C10_FailureIsolated ==
    \A d \in trace.skipped :
        ~grown(scrollHeight[d], overlayOf(d).height)

\* C11: in every overlay the markers, taken in the order of their offsets,
\* carry the page numbers 2, 3, ..., n+1: no number twice, none missing,
\* and a higher offset never has a lower number.
C11_PagesNumberedFromTwo ==
    \A i \in 1..Len(breakContainers) :
        LET markers == breakContainers[i].markers
        IN  /\ {markers[k].page : k \in 1..Len(markers)} = 2..(Len(markers) + 1)
            /\ \A j, k \in 1..Len(markers) :
                   j # k => markers[j].page # markers[k].page
            /\ \A j, k \in 1..Len(markers) :
                   markers[j].position < markers[k].position
                       => markers[j].page < markers[k].page

\* The page dimension and the font metric as the specification words them
C12_Dimension(s) ==
    CASE s.orientation = "portrait" -> PAGE_DIMENSIONS[s.pageSize].height
      [] OTHER -> PAGE_DIMENSIONS[s.pageSize].width

C12_Metric(s) ==
    CASE s.fontFamily = "default" -> 100
      [] s.fontFamily = "serif" -> 102
      [] s.fontFamily = "sans-serif" -> 98
      [] s.fontFamily = "monospace" -> 105
      [] OTHER -> 100

\* getPageHeight is positive and equals the formula whenever the margins
\* leave room on the page, and the default configuration resolves to
\* tenths / 10 pixels within one pixel.  Values are in 1/158750 pixel, so
\* one tenth of a pixel is 15875.
C12_FormulaWithDefault(tenths) ==
    (/\ gen.phase = "resolved"
     /\ settings.marginTop + settings.marginBottom < C12_Dimension(settings))
    => /\ gen.scaled > 0
       /\ gen.scaled = (C12_Dimension(settings) - settings.marginTop
                            - settings.marginBottom) * C12_Metric(settings) * 591
       /\ gen.pageHeight * 158750 <= gen.scaled
       /\ gen.scaled < (gen.pageHeight + 1) * 158750
       /\ settings = DEFAULT_SETTINGS =>
              /\ (tenths - 10) * 15875 <= gen.scaled
              /\ gen.scaled <= (tenths + 10) * 15875

\* C12 as stated: for margins smaller than the page dimension getPageHeight
\* is positive and equals (dimension - margins) * 96/25.4 * fontMetric *
\* 0.985, which for the default A4 portrait configuration is 914.7 px
\* within 1 px.
C12_PageHeightFormula914 == C12_FormulaWithDefault(9147)

\* C12 amended: the same formula, which for the default A4 portrait
\* configuration is 916.6 px within 1 px.
C12_PageHeightFormula == C12_FormulaWithDefault(9166)

\* C12 witness: the default configuration has been resolved, to 916 whole
\* pixels.
C12_Witness ==
    /\ gen.phase = "resolved"
    /\ settings = DEFAULT_SETTINGS
    /\ gen.pageHeight = 916

\* C13: a document not higher than one page (page height > 0) gets the
\* empty sequence from calculateSimpleBreaks, whatever the calibration
\* offset and the minimum spacing are.
C13_SinglePageNoBreak ==
    /\ (/\ gen.phase \in {"generated", "extended"}
        /\ getPageHeight(gen.s) > 0
        /\ gen.oldHeight <= getPageHeight(gen.s))
       => gen.existing = << >>
    /\ (/\ gen.phase = "extended"
        /\ getPageHeight(gen.s) > 0
        /\ gen.newHeight <= getPageHeight(gen.s))
       => gen.full = << >>

\* C13 witness: a document exactly one page high, with a calibration offset
\* that alone would pass the spacing test, has been given no break.
C13_Witness ==
    /\ gen.phase = "generated"
    /\ gen.oldHeight = getPageHeight(gen.s)
    /\ gen.s.calibrationOffset = 300
    /\ gen.s.minBreakSpacing = 0
    /\ gen.existing = << >>

\* The reference generator: the page indices k with k * pageHeight <
\* totalHeight are 1..n; candidate k is appended when it is at least
\* minSpacing above the last appended offset, or above 0 when none is.
C15_Reference(totalHeight, pageHeight, offset, minSpacing) ==
    LET n == IF totalHeight <= pageHeight
             THEN 0
             ELSE (totalHeight - 1) \div pageHeight
        acc[k \in 0..n] ==
            IF k = 0
            THEN << >>
            ELSE LET prev == acc[k - 1]
                     last == IF Len(prev) = 0 THEN 0 ELSE prev[Len(prev)]
                     candidate == k * pageHeight + offset
                 IN  IF candidate - last >= minSpacing
                     THEN Append(prev, candidate)
                     ELSE prev
    IN  acc[n]

C15_ReferenceFor(totalHeight) ==
    C15_Reference(totalHeight, getPageHeight(gen.s), gen.s.calibrationOffset,
                  gen.s.minBreakSpacing)

\* The generator's results equal the reference, and (2000, 900, 0, 50)
\* gives [900, 1800]
C15_EqualsReference ==
    /\ gen.phase \in {"generated", "extended"}
           => gen.existing = C15_ReferenceFor(gen.oldHeight)
    /\ gen.phase = "extended" => gen.full = C15_ReferenceFor(gen.newHeight)
    /\ (/\ gen.phase = "generated"
        /\ getPageHeight(gen.s) = 900
        /\ gen.s.calibrationOffset = 0
        /\ gen.s.minBreakSpacing = 50
        /\ gen.oldHeight = 2000)
       => gen.existing = << 900, 1800 >>

C15_WideSpacingCase ==
    /\ gen.phase = "generated"
    /\ getPageHeight(gen.s) = 900
    /\ gen.s.calibrationOffset = 0
    /\ gen.s.minBreakSpacing = 1000

C16_GrowthOnlyExtendsCached ==
    [][GrowthSignal =>
          \A c \in Containers :
              c \notin DOMAIN calculatedBreaks =>
                  /\ c \notin DOMAIN calculatedBreaks'
                  /\ c \notin trace'.rendered]_vars

\* The i-th overlay and the cache entry of its content region are the same
\* after the step as before it
C17_Untouched(i) ==
    LET c == breakContainers[i].target
    IN  /\ i <= Len(breakContainers')
        /\ breakContainers'[i] = breakContainers[i]
        /\ (c \in DOMAIN calculatedBreaks') = (c \in DOMAIN calculatedBreaks)
        /\ c \in DOMAIN calculatedBreaks =>
               calculatedBreaks'[c] = calculatedBreaks[c]

\* C17: a growth signal leaves the recorded height, the markers and the
\* cached sequence of every content region alone whose rendered height is
\* not more than 100 px above the recorded one (unchanged and shrunk
\* included).
C17_Hysteresis ==
    [][GrowthSignal =>
          \A i \in 1..Len(breakContainers) :
              scrollHeight[breakContainers[i].target]
                  <= breakContainers[i].height + 100
              => C17_Untouched(i)]_vars

\* C17 witness: a growth signal has extended c1 while c2 was exactly at the
\* threshold above its recorded height, which is still recorded.
C17_Witness ==
    /\ trace.rendered = {"c1"}
    /\ trace.calc = {}
    /\ hasOverlay("c2")
    /\ scrollHeight["c2"] = 1100
    /\ overlayOf("c2").height = 1000

C18_IsPrefix(a, b) == Len(a) <= Len(b) /\ SubSeq(b, 1, Len(a)) = a

\* C18: a growth signal never runs calculateSimpleBreaks, and the cached
\* sequence of every content region before it is a prefix of the one after
\* it.
C18_GrowthKeepsPrefix ==
    [][GrowthSignal =>
          /\ trace'.calc = {}
          /\ \A c \in DOMAIN calculatedBreaks :
                 /\ c \in DOMAIN calculatedBreaks'
                 /\ C18_IsPrefix(calculatedBreaks[c], calculatedBreaks'[c])]_vars

\* C18 witness: a growth signal has lengthened the cached sequence of c1,
\* computed for height 1000, up to height 3000.
C18_Witness ==
    /\ trace.rendered = {"c1"}
    /\ trace.calc = {}
    /\ "c1" \in DOMAIN calculatedBreaks
    /\ calculatedBreaks["c1"] = << 916, 1832, 2748 >>

\* C19: at most one recomputation scheduled by active-leaf-change or
\* file-open events is pending at any time: a newer event takes the place
\* of the one still waiting.
C19_NewerEventSupersedes == timers["view"] <= 1

C20_OverlaysOf(bc, c) == SelectSeq(bc, LAMBDA e : e.target = c)

\* C20: a deferred recomputation that runs when the view of a content
\* region is no longer open computes nothing for that region and creates
\* no cache entry, overlay, marker or observer for it.
C20_DeferredSkipsRemoved ==
    [][DeferredRun =>
          \A c \in Containers :
              ~isLeaf(c) =>
                  /\ c \notin DOMAIN calculatedBreaks'
                  /\ c \notin trace'.calc
                  /\ c \notin trace'.rendered
                  /\ C20_OverlaysOf(breakContainers', c)
                         = C20_OverlaysOf(breakContainers, c)
                  /\ connected'[c] = connected[c]
                  /\ (c \in observers') = (c \in observers)]_vars

\* C20 witness: with the view of c1 closed and its overlay still there, a
\* recomputation has run and computed c2 alone.
C20_Witness ==
    /\ "c1" \in closed
    /\ hasOverlay("c1")
    /\ trace.calc = {"c2"}

\* A structural signal has been received and its recomputation is due
C14_SignalPending == pendingTimers > 0 \/ debouncePending \/ pendingSaves > 0

C14_Positions(markers) == [k \in 1..Len(markers) |-> markers[k].position]

\* Every open view with a content region has the cache entry and the
\* markers of a full computation for its height and the settings
C14_AllComputed ==
    \A c \in Containers :
        (isLeaf(c) /\ c \notin noTarget) =>
            /\ pageHeightPositive(settings)
            /\ c \in DOMAIN calculatedBreaks
            /\ hasOverlay(c)
            /\ calculatedBreaks[c] = calculateSimpleBreaks(scrollHeight[c], settings)
            /\ C14_Positions(overlayOf(c).markers) = calculatedBreaks[c]

\* C14: once a structural signal is pending, eventually every open view
\* with a content region has the cache entry and the markers of the full
\* generator for its current height and the current settings.
C14_EventuallyRecomputed == C14_SignalPending ~> C14_AllComputed

\* A handler that ends in updateAllViews runs (main.js:75, 88, 97, 104, 124,
\* 135, 44): updatePageBreaks is called for every open view
C21_UpdateRequest == DeferredRun \/ saveSettings

\* C21: an update of the open views does nothing for a view that has no
\* content region: its cache entry, overlay, markers and observer are the
\* same after it as before it, and nothing is thrown for it.
C21_NoTargetNoEffect ==
    [][C21_UpdateRequest =>
          \A c \in Containers :
              (isLeaf(c) /\ c \in noTarget) =>
                  /\ (c \in DOMAIN calculatedBreaks') = (c \in DOMAIN calculatedBreaks)
                  /\ C20_OverlaysOf(breakContainers', c)
                         = C20_OverlaysOf(breakContainers, c)
                  /\ (c \in observers') = (c \in observers)
                  /\ connected'[c] = connected[c]
                  /\ c \notin trace'.calc
                  /\ c \notin trace'.rendered
                  /\ c \notin trace'.threw]_vars

\* C21 witness: an update has run over c1, which has no content region, and
\* c2, which it computed.
C21_Witness ==
    /\ isLeaf("c1")
    /\ "c1" \in noTarget
    /\ trace.calc = {"c2"}
    /\ ~hasOverlay("c1")
    /\ "c1" \notin DOMAIN calculatedBreaks

\* C22: every content region that has a cache entry has an overlay.
C22_CachedHasOverlay ==
    DOMAIN calculatedBreaks \subseteq overlayTargets(breakContainers)

\* C22 witness: both regions are cached with their overlays, and a growth
\* signal has just lengthened the cached sequence of c1.
C22_Witness ==
    /\ DOMAIN calculatedBreaks = Containers
    /\ overlayTargets(breakContainers) = Containers
    /\ trace.rendered = {"c1"}
    /\ trace.calc = {}
    /\ Len(calculatedBreaks["c1"]) > 1

\* C23: once onunload has run, the cache, the overlay map and the observer
\* map are empty and no marker is displayed, in every later state.
C23_UnloadedStaysEmpty ==
    ~loaded =>
        /\ DOMAIN calculatedBreaks = {}
        /\ breakContainers = << >>
        /\ observers = {}
        /\ \A c \in Containers : connected[c] = 0

\* C24: every cached break sequence was built under one configuration.
C24_SingleConfiguration ==
    \A c \in DOMAIN cacheCfg : Cardinality(cacheCfg[c]) <= 1

\* C25: every content region has at most one connected height observer.
C25_OneObserver ==
    \A c \in Containers : connected[c] <= 1

\* C25 witness: c1, already computed and observed, has been recomputed and
\* has one connected observer.
C25_Witness ==
    /\ "c1" \in trace.redundant
    /\ "c1" \in observers
    /\ connected["c1"] = 1

\* Every offset of the sequence is at least the minimum spacing of s, and
\* not negative
C26_AllAtLeastSpacing(breaks, s) ==
    \A k \in 1..Len(breaks) :
        /\ breaks[k] >= s.minBreakSpacing
        /\ breaks[k] >= 0

====
